---- MODULE Spec2Model ----
(***************************************************************************)
(* Model of dpritchLibre/market_scraping:                                  *)
(*   interactive_stock_vals.py  per-letter scrape with bounded retry       *)
(*   download_stock_vals.py     date validation, browser session, token    *)
(*                              extraction and bulk download               *)
(* Strings that the code indexes or matches are sequences of one-character *)
(* strings; dates are proleptic day ordinals (datetime.date.toordinal).    *)
(***************************************************************************)
EXTENDS Integers, Sequences, FiniteSets, TLC

\* ------------------------------------------------------------------ bounds
MaxTickers == 2
MaxTries == 3
MaxFlakyFails == 3

\* ------------------------------------------------- strings and characters
\* the 26-letter tuple of get_letters_list
Alphabet ==
  <<"A", "B", "C", "D", "E", "F", "G", "H", "I",
    "J", "K", "L", "M", "N", "O", "P", "Q", "R",
    "S", "T", "U", "V", "W", "X", "Y", "Z">>

\* code point of a character: the order Python's sorted() uses on str
Ord ==
  "A" :> 65 @@ "B" :> 66 @@ "C" :> 67 @@ "D" :> 68 @@ "E" :> 69 @@
  "F" :> 70 @@ "G" :> 71 @@ "H" :> 72 @@ "I" :> 73 @@ "J" :> 74 @@
  "K" :> 75 @@ "L" :> 76 @@ "M" :> 77 @@ "N" :> 78 @@ "O" :> 79 @@
  "P" :> 80 @@ "Q" :> 81 @@ "R" :> 82 @@ "S" :> 83 @@ "T" :> 84 @@
  "U" :> 85 @@ "V" :> 86 @@ "W" :> 87 @@ "X" :> 88 @@ "Y" :> 89 @@
  "Z" :> 90

Letters == DOMAIN Ord

AAPL == <<"A", "A", "P", "L">>
ADBE == <<"A", "D", "B", "E">>
AMZN == <<"A", "M", "Z", "N">>
GOOGL == <<"G", "O", "O", "G", "L">>
MSFT == <<"M", "S", "F", "T">>
NFLX == <<"N", "F", "L", "X">>
NOTASTOCK == <<"N", "O", "T", "A", "S", "T", "O", "C", "K">>
XEL == <<"X", "E", "L">>

\* tickers a caller may ask for
TickerUniverse == {AAPL, AMZN, GOOGL, NOTASTOCK, XEL}

SeqsUpTo(S, n) == UNION {[1..k -> S] : k \in 0..n}

\* the `tickers` argument: None, or a list (possibly empty, possibly with
\* repetitions)
TickersNone == [given |-> FALSE, list |-> <<>>]
TickersArgs ==
  {TickersNone} \cup
  {[given |-> TRUE, list |-> s] : s \in SeqsUpTo(TickerUniverse, MaxTickers)}

\* ------------------------------------------------------------ the listing
\* Codes listed on http://eoddata.com/stocklist/NASDAQ/<letter>.htm
Listing(letter) ==
  CASE letter = "A" -> <<AAPL, ADBE, AMZN>>
    [] letter = "G" -> <<GOOGL>>
    [] letter = "M" -> <<MSFT>>
    [] letter = "N" -> <<NFLX>>
    [] letter = "X" -> <<XEL>>
    [] OTHER -> << <<letter, letter>> >>

\* read_eod_data: the table of one page, rows indexed 0..k-1 by read_html
read_eod_data(letter) ==
  [r \in 1..Len(Listing(letter)) |->
     [index |-> r - 1, Code |-> Listing(letter)[r]]]

\* the page-fetch functions a caller may inject as read_eod_fn
FetchFns ==
  {[kind |-> "ok", letter |-> "A"], [kind |-> "flaky", letter |-> "A"]} \cup
  {[kind |-> "failsOn", letter |-> l] : l \in Letters}

\* ------------------------------------------------------- get_letters_list
MinOrd(S) == CHOOSE c \in S : \A d \in S : Ord[c] <= Ord[d]

RECURSIVE sorted(_)
sorted(S) ==
  IF S = {} THEN <<>> ELSE <<MinOrd(S)>> \o sorted(S \ {MinOrd(S)})

\* a seeded fault: first letters in request order, not deduplicated or sorted
get_letters_list_unsorted(tk) ==
  IF ~tk.given
    THEN Alphabet
    ELSE [j \in 1..Len(tk.list) |-> tk.list[j][1]]

get_letters_list(tk) ==
  IF ~tk.given
    THEN Alphabet
    ELSE sorted({tk.list[j][1] : j \in 1..Len(tk.list)})

\* --------------------------------------------------------- table helpers
RECURSIVE concat(_)
concat(tables) ==
  IF tables = <<>> THEN <<>> ELSE Head(tables) \o concat(Tail(tables))

\* a seeded fault: the isin filter is missing
SelectRows_nofilter(table, codes) == table

RECURSIVE SelectRows(_, _)
SelectRows(table, codes) ==
  IF table = <<>> THEN <<>>
  ELSE IF Head(table).Code \in codes
         THEN <<Head(table)>> \o SelectRows(Tail(table), codes)
         ELSE SelectRows(Tail(table), codes)

\* a seeded fault: the index is left as concatenated
reset_index_noop(table) == table

reset_index(table) ==
  [r \in 1..Len(table) |-> [index |-> r - 1, Code |-> table[r].Code]]

Codes(table) == {table[r].Code : r \in 1..Len(table)}
ListSet(s) == {s[j] : j \in 1..Len(s)}

\* a seeded fault: the mask is not negated, the tickers found are reported
tickers_not_in_found(list, table) ==
  SelectSeq(list, LAMBDA t : t \in Codes(table))

\* pd.Series(tickers)[~pd.Series(tickers).isin(combined['Code'])]
RECURSIVE tickers_not_in(_, _)
tickers_not_in(list, table) ==
  IF list = <<>> THEN <<>>
  ELSE IF Head(list) \in Codes(table)
         THEN tickers_not_in(Tail(list), table)
         ELSE <<Head(list)>> \o tickers_not_in(Tail(list), table)

NoError == [type |-> "none", let |-> "", n_tries |-> 0]

\* ------------------------------------------------------------------ state
VARIABLES
  tickers, n_tries, read_eod_fn,     \* arguments of get_vals_from_eoddata
  pc,                                \* "idle", "start", "loop", "returned", "raised"
  letters, let_idx, i, stock_vals,   \* locals of get_vals_from_eoddata
  combined, warned, error,           \* returned table, warning, exception
  log,                               \* calls of read_eod_fn: <<letter, ok>>
  flaky_left                         \* failures a flaky read_eod_fn may still produce

scrape_vars ==
  <<tickers, n_tries, read_eod_fn, pc, letters, let_idx, i, stock_vals,
    combined, warned, error, log, flaky_left>>

\* state of one run of download_stock_vals.py
VARIABLES
  service, dir_ok, market,           \* command-line arguments
  start_date, end_date,              \* start_date_canon, end_date_canon
  n_days_history, today,             \* lookback and the date read at line 77
  bpc,                               \* position in __main__ / download_stock_vals
  validated,                         \* "pending", "accepted", "rejected"
  browser,                           \* Chrome session: "none", "open", "closed"
  driver_bound,                      \* download_stock_vals' local `driver` is assigned
  requests,                          \* URLs passed to driver.get, in order
  url_list, url_idx, k,              \* locals of download_from_eoddata
  pending,                           \* exception in flight inside the try block
  outcome,                           \* exception that reaches the caller
  closes                             \* number of driver.close() calls

bulk_vars ==
  <<service, dir_ok, market, start_date, end_date, n_days_history, today, bpc,
    validated, browser, driver_bound, requests, url_list, url_idx, k, pending,
    outcome, closes>>

vars == <<scrape_vars, bulk_vars>>

\* ----------------------------------------------- get_vals_from_eoddata
ScrapeInit ==
  /\ tickers \in TickersArgs
  /\ n_tries \in 0..MaxTries
  /\ read_eod_fn \in FetchFns
  /\ pc = "start"
  /\ letters = <<>>
  /\ let_idx = 0
  /\ i = 0
  /\ stock_vals = <<>>
  /\ combined = <<>>
  /\ warned = <<>>
  /\ error = NoError
  /\ log = <<>>
  /\ flaky_left = MaxFlakyFails

\* lines 65-70: derive the partition, empty stock_vals, enter the outer loop
Start ==
  /\ UNCHANGED bulk_vars
  /\ pc = "start"
  /\ letters' = get_letters_list(tickers)
  /\ stock_vals' = <<>>
  /\ let_idx' = 1
  /\ i' = 0
  /\ pc' = "loop"
  /\ UNCHANGED <<tickers, n_tries, read_eod_fn, combined, warned, error, log,
                 flaky_left>>

InLoop == pc = "loop" /\ let_idx <= Len(letters)
let == letters[let_idx]

\* whether a call read_eod_fn(letter) may succeed / may raise
MaySucceed(letter) ==
  \/ read_eod_fn.kind = "ok"
  \/ read_eod_fn.kind = "flaky"
  \/ read_eod_fn.kind = "failsOn" /\ read_eod_fn.letter # letter

MayFail(letter) ==
  \/ read_eod_fn.kind = "flaky" /\ flaky_left > 0
  \/ read_eod_fn.kind = "failsOn" /\ read_eod_fn.letter = letter

\* a seeded fault: one attempt too many
TriesLeft_offbyone == i <= n_tries

\* line 76: `for i in range(n_tries)` still has an iteration to run
TriesLeft == i < n_tries

\* a seeded fault: no `break` after a successful call
FetchOk_nobreak ==
  /\ UNCHANGED bulk_vars
  /\ InLoop
  /\ TriesLeft
  /\ MaySucceed(let)
  /\ stock_vals' = Append(stock_vals, read_eod_data(let))
  /\ log' = Append(log, <<let, TRUE>>)
  /\ i' = i + 1
  /\ UNCHANGED <<tickers, n_tries, read_eod_fn, pc, letters, let_idx,
                 combined, warned, error, flaky_left>>

\* lines 76-79, 82-83: the call returns a table; append it, break, next letter
FetchOk ==
  /\ UNCHANGED bulk_vars
  /\ InLoop
  /\ TriesLeft
  /\ MaySucceed(let)
  /\ stock_vals' = Append(stock_vals, read_eod_data(let))
  /\ log' = Append(log, <<let, TRUE>>)
  /\ let_idx' = let_idx + 1
  /\ i' = 0
  /\ UNCHANGED <<tickers, n_tries, read_eod_fn, pc, letters, combined, warned,
                 error, flaky_left>>

\* a seeded fault: a failed attempt is not counted (retry until success)
FetchFail_uncounted ==
  /\ UNCHANGED bulk_vars
  /\ InLoop
  /\ TriesLeft
  /\ MayFail(let)
  /\ log' = Append(log, <<let, FALSE>>)
  /\ flaky_left' = IF read_eod_fn.kind = "flaky" THEN flaky_left - 1
                   ELSE flaky_left
  /\ UNCHANGED <<tickers, n_tries, read_eod_fn, pc, letters, let_idx, i,
                 stock_vals, combined, warned, error>>

\* lines 76-78, 80-81: the call raises; swallow it and go to the next attempt
FetchFail ==
  /\ UNCHANGED bulk_vars
  /\ InLoop
  /\ TriesLeft
  /\ MayFail(let)
  /\ log' = Append(log, <<let, FALSE>>)
  /\ i' = i + 1
  /\ flaky_left' = IF read_eod_fn.kind = "flaky" THEN flaky_left - 1
                   ELSE flaky_left
  /\ UNCHANGED <<tickers, n_tries, read_eod_fn, pc, letters, let_idx,
                 stock_vals, combined, warned, error>>

\* a seeded fault: an exhausted letter is skipped instead of being fatal
GiveUp_continue ==
  /\ UNCHANGED bulk_vars
  /\ InLoop
  /\ ~TriesLeft
  /\ let_idx' = let_idx + 1
  /\ i' = 0
  /\ UNCHANGED <<tickers, n_tries, read_eod_fn, pc, letters, stock_vals,
                 combined, warned, error, log, flaky_left>>

\* lines 84-87: range(n_tries) ran out without a break
GiveUp ==
  /\ UNCHANGED bulk_vars
  /\ InLoop
  /\ ~TriesLeft
  /\ error' = [type |-> "Exception", let |-> let, n_tries |-> n_tries]
  /\ pc' = "raised"
  /\ UNCHANGED <<tickers, n_tries, read_eod_fn, letters, let_idx, i,
                 stock_vals, combined, warned, log, flaky_left>>

\* the table lines 91-95 build from stock_vals
\* a seeded fault: the rows are looked up ticker by ticker, in request order
RECURSIVE RowsPerTicker(_, _)
RowsPerTicker(table, list) ==
  IF list = <<>> THEN <<>>
  ELSE SelectRows(table, {Head(list)}) \o RowsPerTicker(table, Tail(list))

Filtered_perticker(tables, tk) ==
  reset_index(IF tk.given THEN RowsPerTicker(concat(tables), tk.list)
              ELSE concat(tables))

Filtered(tables, tk) ==
  reset_index(IF tk.given THEN SelectRows(concat(tables), ListSet(tk.list))
              ELSE concat(tables))

\* lines 89-105; pd.concat raises ValueError on an empty list of tables
Combine ==
  /\ UNCHANGED bulk_vars
  /\ pc = "loop"
  /\ let_idx > Len(letters)
  /\ IF stock_vals = <<>>
       THEN /\ error' = [type |-> "ValueError", let |-> "", n_tries |-> 0]
            /\ pc' = "raised"
            /\ UNCHANGED <<combined, warned>>
       ELSE /\ combined' = Filtered(stock_vals, tickers)
            /\ warned' = tickers_not_in(tickers.list,
                                        Filtered(stock_vals, tickers))
            /\ pc' = "returned"
            /\ UNCHANGED error
  /\ UNCHANGED <<tickers, n_tries, read_eod_fn, letters, let_idx, i,
                 stock_vals, log, flaky_left>>

ScrapeNext == Start \/ FetchOk \/ FetchFail \/ GiveUp \/ Combine

\* ===================================================== download_stock_vals.py
\* ------------------------------------------------------------ bounds, inputs
DateMargin == 1
MaxLinks == 2
MaxLookback == 2

\* datetime.datetime.today().date(), as a day ordinal (2018-06-06)
Today == 736851

\* service_info['eoddata']['n_days_history']
n_days_history_eoddata == 30

NASDAQ == <<"N", "A", "S", "D", "A", "Q">>
INDEX == <<"I", "N", "D", "E", "X">>

\* values of --market
Markets == {NASDAQ, INDEX}

\* ------------------------------------------------------- check_valid_dates
NoExc == [type |-> "none", line |-> 0]
Exc(t, l) == [type |-> t, line |-> l]

\* a seeded fault: the first comparison rejects the boundary day as well
check_valid_dates_strict(start, end, n_days, now) ==
  IF start <= now - n_days THEN Exc("ValueError", 81)
  ELSE IF now < start THEN Exc("ValueError", 86)
  ELSE IF end < start THEN Exc("ValueError", 90)
  ELSE NoExc

\* a seeded fault: the inverted-range comparison is missing
check_valid_dates_noorder(start, end, n_days, now) ==
  IF start < now - n_days THEN Exc("ValueError", 81)
  ELSE IF now < start THEN Exc("ValueError", 86)
  ELSE NoExc

\* the exception check_valid_dates raises (NoExc when it returns), with `now`
\* the date read at line 77
check_valid_dates(start, end, n_days, now) ==
  IF start < now - n_days THEN Exc("ValueError", 81)
  ELSE IF now < start THEN Exc("ValueError", 86)
  ELSE IF end < start THEN Exc("ValueError", 90)
  ELSE NoExc

\* ------------------------------------------------------ strftime('%Y%m%d')
IsLeap(y) == y % 4 = 0 /\ (y % 100 # 0 \/ y % 400 = 0)
DaysBeforeYear(y) ==
  (y - 1) * 365 + (y - 1) \div 4 - (y - 1) \div 100 + (y - 1) \div 400
DaysInMonth(y, m) ==
  IF m = 2 THEN (IF IsLeap(y) THEN 29 ELSE 28)
  ELSE IF m \in {4, 6, 9, 11} THEN 30 ELSE 31
RECURSIVE DaysBeforeMonth(_, _)
DaysBeforeMonth(y, m) ==
  IF m = 1 THEN 0 ELSE DaysBeforeMonth(y, m - 1) + DaysInMonth(y, m - 1)

\* datetime.date.fromordinal: the calendar date of a day ordinal
YearOf(n) ==
  CHOOSE y \in (n \div 366)..(n \div 365 + 1) :
    DaysBeforeYear(y) < n /\ n <= DaysBeforeYear(y + 1)
MonthOf(n) ==
  CHOOSE m \in 1..12 :
    /\ DaysBeforeMonth(YearOf(n), m) < n - DaysBeforeYear(YearOf(n))
    /\ n - DaysBeforeYear(YearOf(n))
         <= DaysBeforeMonth(YearOf(n), m) + DaysInMonth(YearOf(n), m)
DayOf(n) == n - DaysBeforeYear(YearOf(n)) - DaysBeforeMonth(YearOf(n), MonthOf(n))

Digit(d) == <<"0", "1", "2", "3", "4", "5", "6", "7", "8", "9">>[d + 1]
Pad2(v) == <<Digit((v \div 10) % 10), Digit(v % 10)>>
Pad4(v) == Pad2(v \div 100) \o Pad2(v % 100)
\* a seeded fault: month and day without zero padding ('%Y%-m%-d')
NoPad(v) == IF v < 10 THEN <<Digit(v)>> ELSE Pad2(v)
strftime_Ymd_nopad(n) == Pad4(YearOf(n)) \o NoPad(MonthOf(n)) \o NoPad(DayOf(n))

strftime_Ymd(n) == Pad4(YearOf(n)) \o Pad2(MonthOf(n)) \o Pad2(DayOf(n))

\* ------------------------------------------------------- pages and links
url_main == <<"h", "t", "t", "p", ":", "/", "/", "w", "w", "w", ".", "e", "o", "d",
    "d", "a", "t", "a", ".", "c", "o", "m", "/">>
url_downloads_page == <<"h", "t", "t", "p", ":", "/", "/", "w", "w", "w", ".", "e", "o", "d",
    "d", "a", "t", "a", ".", "c", "o", "m", "/", "d", "o", "w", "n", "l",
    "o", "a", "d", ".", "a", "s", "p", "x">>
url_base == <<"h", "t", "t", "p", ":", "/", "/", "w", "w", "w", ".", "e", "o", "d",
    "d", "a", "t", "a", ".", "c", "o", "m", "/", "d", "a", "t", "a", "/",
    "f", "i", "l", "e", "d", "o", "w", "n", "l", "o", "a", "d", ".", "a",
    "s", "p", "x">>

\* the pattern of re.match at line 122
pat_filedownload == <<"/", "d", "a", "t", "a", "/", "f", "i", "l", "e", "d", "o", "w", "n",
    "l", "o", "a", "d", ".", "a", "s", "p", "x">>

\* hrefs a listing page may carry
href_example == <<"/", "d", "a", "t", "a", "/", "f", "i", "l", "e", "d", "o", "w", "n",
    "l", "o", "a", "d", ".", "a", "s", "p", "x", "?", "e", "=", "I", "N",
    "D", "E", "X", "&", "s", "d", "=", "2", "0", "1", "8", "0", "6", "0",
    "6", "&", "e", "d", "=", "2", "0", "1", "8", "0", "6", "0", "6", "&",
    "d", "=", "4", "&", "k", "=", "p", "h", "7", "2", "h", "4", "y", "n",
    "w", "2", "&", "o", "=", "d", "&", "e", "a", "=", "1", "&", "p", "=",
    "0">>
href_abc123 == <<"/", "d", "a", "t", "a", "/", "f", "i", "l", "e", "d", "o", "w", "n",
    "l", "o", "a", "d", ".", "a", "s", "p", "x", "?", "e", "=", "N", "A",
    "S", "D", "A", "Q", "&", "d", "=", "4", "&", "k", "=", "a", "b", "c",
    "1", "2", "3", "&", "o", "=", "d">>
href_other == <<"/", "d", "o", "w", "n", "l", "o", "a", "d", ".", "a", "s", "p", "x">>
href_no_k == <<"/", "d", "a", "t", "a", "/", "f", "i", "l", "e", "d", "o", "w", "n",
    "l", "o", "a", "d", ".", "a", "s", "p", "x", "?", "e", "=", "I", "N",
    "D", "E", "X", "&", "d", "=", "4">>
href_empty_k == <<"/", "d", "a", "t", "a", "/", "f", "i", "l", "e", "d", "o", "w", "n",
    "l", "o", "a", "d", ".", "a", "s", "p", "x", "?", "e", "=", "I", "N",
    "D", "E", "X", "&", "k", "=", "&", "o", "=", "d">>
href_mk == <<"/", "d", "a", "t", "a", "/", "f", "i", "l", "e", "d", "o", "w", "n",
    "l", "o", "a", "d", ".", "a", "s", "p", "x", "?", "m", "k", "=", "N",
    "Y", "S", "E", "&", "k", "=", "a", "b", "c", "1", "2", "3">>

Hrefs ==
  {href_example, href_abc123, href_other, href_no_k, href_empty_k, href_mk}

\* <a> tags as BeautifulSoup returns them: with or without an href attribute
Anchors ==
  {[has_href |-> TRUE, href |-> h] : h \in Hrefs} \cup
  {[has_href |-> FALSE, href |-> <<>>]}

\* bs_obj.find_all('a') of the pages the service may answer with
Pages == SeqsUpTo(Anchors, MaxLinks)

\* re.match(pat, s): pat matches at the start of s; '.' matches any character
re_match(pat, s) ==
  /\ Len(s) >= Len(pat)
  /\ \A j \in 1..Len(pat) : pat[j] = "." \/ pat[j] = s[j]

\* re.search('k=([^&]*)', s): the leftmost "k=", then all characters up to
\* the next '&'
KEqAt(s) == {p \in 1..(Len(s) - 1) : s[p] = "k" /\ s[p + 1] = "="}
Leftmost(P) == CHOOSE p \in P : \A q \in P : p <= q
RunEnd(s, from) ==
  IF \E q \in from..Len(s) : s[q] = "&"
    THEN Leftmost({q \in from..Len(s) : s[q] = "&"}) - 1
    ELSE Len(s)
re_search_k(s) ==
  IF KEqAt(s) = {}
    THEN [found |-> FALSE, group1 |-> <<>>]
    ELSE [found |-> TRUE,
          group1 |-> SubSeq(s, Leftmost(KEqAt(s)) + 2,
                            RunEnd(s, Leftmost(KEqAt(s)) + 2))]

\* url_template.format(...) of lines 130-141
url_download_of(mkt, start, end, key) ==
  url_base \o <<"?", "e", "=">> \o mkt \o <<"&", "s", "d", "=">> \o strftime_Ymd(start)
    \o <<"&", "e", "d", "=">> \o strftime_Ymd(end) \o <<"&", "d", "=">> \o <<"4">>
    \o <<"&", "k", "=">> \o key \o <<"&", "o", "=">> \o <<"d">> \o <<"&", "e", "a", "=">> \o <<"1">>
    \o <<"&", "p", "=">> \o <<"0">>

Dates == (Today - n_days_history_eoddata - DateMargin)..(Today + DateMargin)

BulkRest ==
  /\ validated = "pending"
  /\ browser = "none"
  /\ driver_bound = FALSE
  /\ requests = <<>>
  /\ url_list = <<>>
  /\ url_idx = 0
  /\ k = <<>>
  /\ pending = NoExc
  /\ outcome = NoExc
  /\ closes = 0

\* python download_stock_vals.py -s .. -e .. -m .. -d .. -v ..
BulkInit ==
  /\ service \in {"eoddata", "quandl"}
  /\ dir_ok \in BOOLEAN
  /\ market \in Markets
  /\ start_date \in Dates
  /\ end_date \in (start_date - DateMargin)..(start_date + DateMargin)
  /\ n_days_history = n_days_history_eoddata
  /\ today = Today
  /\ bpc = "main"
  /\ BulkRest

\* lines 215-217
MainCheckService ==
  /\ UNCHANGED scrape_vars
  /\ bpc = "main"
  /\ IF service # "eoddata"
       THEN /\ outcome' = Exc("ValueError", 217)
            /\ bpc' = "done"
       ELSE /\ bpc' = "main_dates"
            /\ UNCHANGED outcome
  /\ UNCHANGED <<service, dir_ok, market, start_date, end_date, n_days_history,
                 today, validated, browser, driver_bound, requests, url_list,
                 url_idx, k, pending, closes>>

\* a seeded fault: the verdict of check_valid_dates is not acted upon
MainCheckDates_ignored ==
  /\ UNCHANGED scrape_vars
  /\ bpc = "main_dates"
  /\ validated' =
       IF check_valid_dates(start_date, end_date, n_days_history, today) = NoExc
         THEN "accepted" ELSE "rejected"
  /\ bpc' = "main_dir"
  /\ UNCHANGED <<service, dir_ok, market, start_date, end_date, n_days_history,
                 today, browser, driver_bound, requests, url_list, url_idx, k,
                 pending, outcome, closes>>

\* lines 219-225
MainCheckDates ==
  /\ UNCHANGED scrape_vars
  /\ bpc = "main_dates"
  /\ LET exc == check_valid_dates(start_date, end_date, n_days_history, today)
     IN IF exc # NoExc
          THEN /\ validated' = "rejected"
               /\ outcome' = exc
               /\ bpc' = "done"
          ELSE /\ validated' = "accepted"
               /\ bpc' = "main_dir"
               /\ UNCHANGED outcome
  /\ UNCHANGED <<service, dir_ok, market, start_date, end_date, n_days_history,
                 today, browser, driver_bound, requests, url_list, url_idx, k,
                 pending, closes>>

\* lines 227-238: the directory check, then the call of download_stock_vals
MainCheckDir ==
  /\ UNCHANGED scrape_vars
  /\ bpc = "main_dir"
  /\ IF ~dir_ok
       THEN /\ outcome' = Exc("ValueError", 229)
            /\ bpc' = "done"
       ELSE /\ bpc' = "chrome"
            /\ UNCHANGED outcome
  /\ UNCHANGED <<service, dir_ok, market, start_date, end_date, n_days_history,
                 today, validated, browser, driver_bound, requests, url_list,
                 url_idx, k, pending, closes>>

\* an exception raised inside the try block of download_stock_vals: control
\* goes to the finally clause
Raise(exc) ==
  /\ pending' = exc
  /\ bpc' = "finally"

\* line 51: webdriver.Chrome(...) starts the browser, or raises
StartChrome ==
  /\ UNCHANGED scrape_vars
  /\ bpc = "chrome"
  /\ \/ /\ browser' = "open"
        /\ bpc' = "enable"
        /\ UNCHANGED pending
     \/ /\ Raise(Exc("WebDriverException", 51))
        /\ UNCHANGED browser
  /\ UNCHANGED <<service, dir_ok, market, start_date, end_date, n_days_history,
                 today, validated, driver_bound, requests, url_list, url_idx,
                 k, outcome, closes>>

\* line 52: enable_download_in_headless_chrome
EnableDownload ==
  /\ UNCHANGED scrape_vars
  /\ bpc = "enable"
  /\ \/ /\ bpc' = "open_main"
        /\ UNCHANGED pending
     \/ Raise(Exc("WebDriverException", 52))
  /\ UNCHANGED <<service, dir_ok, market, start_date, end_date, n_days_history,
                 today, validated, browser, driver_bound, requests, url_list,
                 url_idx, k, outcome, closes>>

\* line 55: driver.get of the main page
OpenMainPage ==
  /\ UNCHANGED scrape_vars
  /\ bpc = "open_main"
  /\ requests' = Append(requests, url_main)
  /\ \/ /\ bpc' = "login"
        /\ UNCHANGED pending
     \/ Raise(Exc("WebDriverException", 55))
  /\ UNCHANGED <<service, dir_ok, market, start_date, end_date, n_days_history,
                 today, validated, browser, driver_bound, url_list, url_idx, k,
                 outcome, closes>>

\* lines 57-67 and the assignment of line 180: fill in the form, submit,
\* return the driver; a missing form element raises
Login ==
  /\ UNCHANGED scrape_vars
  /\ bpc = "login"
  /\ \/ /\ driver_bound' = TRUE
        /\ bpc' = "listing"
        /\ UNCHANGED pending
     \/ /\ Raise(Exc("NoSuchElementException", 58))
        /\ UNCHANGED driver_bound
  /\ UNCHANGED <<service, dir_ok, market, start_date, end_date, n_days_history,
                 today, validated, browser, requests, url_list, url_idx, k,
                 outcome, closes>>

\* lines 102-111: open the downloads page, collect its <a> tags, k = ''
GetListing ==
  /\ UNCHANGED scrape_vars
  /\ bpc = "listing"
  /\ requests' = Append(requests, url_downloads_page)
  /\ \/ /\ url_list' \in Pages
        /\ url_idx' = 1
        /\ k' = <<>>
        /\ bpc' = "scan"
        /\ UNCHANGED pending
     \/ /\ Raise(Exc("WebDriverException", 103))
        /\ UNCHANGED <<url_list, url_idx, k>>
  /\ UNCHANGED <<service, dir_ok, market, start_date, end_date, n_days_history,
                 today, validated, browser, driver_bound, outcome, closes>>

url == url_list[url_idx]

\* lines 112-124: one iteration of `for url in url_list`
ScanLink ==
  /\ UNCHANGED scrape_vars
  /\ bpc = "scan"
  /\ url_idx <= Len(url_list)
  /\ IF ~url.has_href
       THEN /\ url_idx' = url_idx + 1
            /\ UNCHANGED <<k, bpc, pending>>
       ELSE IF re_match(pat_filedownload, url.href)
         THEN IF re_search_k(url.href).found
                THEN /\ k' = re_search_k(url.href).group1
                     /\ bpc' = "check_k"
                     /\ UNCHANGED <<url_idx, pending>>
                ELSE /\ Raise(Exc("AttributeError", 123))
                     /\ UNCHANGED <<k, url_idx>>
         ELSE /\ url_idx' = url_idx + 1
              /\ UNCHANGED <<k, bpc, pending>>
  /\ UNCHANGED <<service, dir_ok, market, start_date, end_date, n_days_history,
                 today, validated, browser, driver_bound, requests, url_list,
                 outcome, closes>>

\* the for loop ends without a break
ScanEnd ==
  /\ UNCHANGED scrape_vars
  /\ bpc = "scan"
  /\ url_idx > Len(url_list)
  /\ bpc' = "check_k"
  /\ UNCHANGED <<service, dir_ok, market, start_date, end_date, n_days_history,
                 today, validated, browser, driver_bound, requests, url_list,
                 url_idx, k, pending, outcome, closes>>

\* a seeded fault: the download goes ahead whether or not a token was found
CheckToken_unchecked ==
  /\ UNCHANGED scrape_vars
  /\ bpc = "check_k"
  /\ bpc' = "request"
  /\ UNCHANGED <<service, dir_ok, market, start_date, end_date, n_days_history,
                 today, validated, browser, driver_bound, requests, url_list,
                 url_idx, k, pending, outcome, closes>>

\* a seeded fault: a missing token makes the listing page be loaded again
CheckToken_retry ==
  /\ UNCHANGED scrape_vars
  /\ bpc = "check_k"
  /\ bpc' = IF k = <<>> THEN "listing" ELSE "request"
  /\ UNCHANGED <<service, dir_ok, market, start_date, end_date, n_days_history,
                 today, validated, browser, driver_bound, requests, url_list,
                 url_idx, k, pending, outcome, closes>>

\* lines 125-126
CheckToken ==
  /\ UNCHANGED scrape_vars
  /\ bpc = "check_k"
  /\ IF k = <<>>
       THEN Raise(Exc("Exception", 126))
       ELSE /\ bpc' = "request"
            /\ UNCHANGED pending
  /\ UNCHANGED <<service, dir_ok, market, start_date, end_date, n_days_history,
                 today, validated, browser, driver_bound, requests, url_list,
                 url_idx, k, outcome, closes>>

\* lines 128-150: build the URL, request it, wait ten seconds, return
RequestDownload ==
  /\ UNCHANGED scrape_vars
  /\ bpc = "request"
  /\ requests' =
       Append(requests, url_download_of(market, start_date, end_date, k))
  /\ \/ /\ bpc' = "finally"
        /\ UNCHANGED pending
     \/ Raise(Exc("WebDriverException", 143))
  /\ UNCHANGED <<service, dir_ok, market, start_date, end_date, n_days_history,
                 today, validated, browser, driver_bound, url_list, url_idx, k,
                 outcome, closes>>

\* a seeded fault: the session is also closed where the exception is caught,
\* so a failed run closes it a second time in the finally clause
Finally_twice ==
  /\ UNCHANGED scrape_vars
  /\ bpc = "finally"
  /\ IF driver_bound
       THEN /\ browser' = "closed"
            /\ closes' = closes + (IF pending # NoExc THEN 2 ELSE 1)
            /\ outcome' = pending
       ELSE /\ outcome' = Exc("UnboundLocalError", 185)
            /\ UNCHANGED <<browser, closes>>
  /\ bpc' = "done"
  /\ UNCHANGED <<service, dir_ok, market, start_date, end_date, n_days_history,
                 today, validated, driver_bound, requests, url_list, url_idx,
                 k, pending>>

\* lines 182-185: driver.close() in the finally clause, then the pending
\* exception (if any) propagates; an unassigned `driver` raises
\* UnboundLocalError, which replaces the pending exception
Finally ==
  /\ UNCHANGED scrape_vars
  /\ bpc = "finally"
  /\ IF driver_bound
       THEN /\ browser' = "closed"
            /\ closes' = closes + 1
            /\ outcome' = pending
       ELSE /\ outcome' = Exc("UnboundLocalError", 185)
            /\ UNCHANGED <<browser, closes>>
  /\ bpc' = "done"
  /\ UNCHANGED <<service, dir_ok, market, start_date, end_date, n_days_history,
                 today, validated, driver_bound, requests, url_list, url_idx,
                 k, pending>>

BulkNext ==
  \/ MainCheckService \/ MainCheckDates \/ MainCheckDir
  \/ StartChrome \/ EnableDownload \/ OpenMainPage \/ Login
  \/ GetListing \/ ScanLink \/ ScanEnd \/ CheckToken \/ RequestDownload
  \/ Finally

\* ------------------------------------------ check_valid_dates on its own
DatesInit ==
  /\ service = "eoddata"
  /\ dir_ok = TRUE
  /\ market = NASDAQ
  /\ today \in Today..(Today + 1)
  /\ n_days_history \in (0 - 1)..MaxLookback
  /\ start_date \in (Today - MaxLookback - 1)..(Today + 2)
  /\ end_date \in (Today - MaxLookback - 1)..(Today + 2)
  /\ bpc = "validate"
  /\ BulkRest

\* one call check_valid_dates(start_date, end_date, n_days_history)
CallCheckValidDates ==
  /\ UNCHANGED scrape_vars
  /\ bpc = "validate"
  /\ outcome' = check_valid_dates(start_date, end_date, n_days_history, today)
  /\ validated' = IF outcome' = NoExc THEN "accepted" ELSE "rejected"
  /\ bpc' = "validated"
  /\ UNCHANGED <<service, dir_ok, market, start_date, end_date, n_days_history,
                 today, browser, driver_bound, requests, url_list, url_idx, k,
                 pending, closes>>

DatesNext == CallCheckValidDates

\* ---------------------------------------------------------- specifications
ScrapeRest ==
  /\ tickers = TickersNone
  /\ n_tries = 0
  /\ read_eod_fn = [kind |-> "ok", letter |-> "A"]
  /\ pc = "idle"
  /\ letters = <<>>
  /\ let_idx = 0
  /\ i = 0
  /\ stock_vals = <<>>
  /\ combined = <<>>
  /\ warned = <<>>
  /\ error = NoError
  /\ log = <<>>
  /\ flaky_left = 0

BulkIdle ==
  /\ service = "eoddata"
  /\ dir_ok = TRUE
  /\ market = NASDAQ
  /\ start_date = Today
  /\ end_date = Today
  /\ n_days_history = n_days_history_eoddata
  /\ today = Today
  /\ bpc = "idle"
  /\ BulkRest

\* get_vals_from_eoddata called once
InitScrape == ScrapeInit /\ BulkIdle
SpecScrape == InitScrape /\ [][ScrapeNext]_vars

\* one run of download_stock_vals.py
InitBulk == BulkInit /\ ScrapeRest
SpecBulk == InitBulk /\ [][BulkNext]_vars

\* check_valid_dates called once
InitDates == DatesInit /\ ScrapeRest
SpecDates == InitDates /\ [][DatesNext]_vars
\* ------------------------------------------------ observations on a run
Range(s) == {s[j] : j \in 1..Len(s)}
Calls(l) == Cardinality({j \in 1..Len(log) : log[j][1] = l})
Fails(l) == Cardinality({j \in 1..Len(log) : log[j][1] = l /\ ~log[j][2]})
Oks(l) == Cardinality({j \in 1..Len(log) : log[j][1] = l /\ log[j][2]})
Ended == pc \in {"returned", "raised"}
FirstChars == {tickers.list[j][1] : j \in 1..Len(tickers.list)}
PosIn(s, x) == CHOOSE j \in 1..Len(s) : s[j] = x

\* C1: every letter is fetched at most n_tries times; a failed attempt is
\* swallowed and the same letter is tried again; once a letter has failed
\* n_tries times the call raises an error naming that letter and n_tries, and
\* returns no table.
C1_BoundedRetryFatal ==
  /\ \A l \in Letters : Calls(l) <= n_tries
  /\ \A j \in 1..Len(log) :
       ~log[j][2] =>
         /\ j < Len(log) => log[j + 1][1] = log[j][1]
         /\ (j = Len(log) /\ Fails(log[j][1]) < n_tries) => pc = "loop"
  /\ (Ended /\ \E l \in Range(letters) : Oks(l) = 0 /\ Fails(l) = n_tries) =>
       /\ pc = "raised"
       /\ error.type = "Exception"
       /\ error.n_tries = n_tries
       /\ error.let \in Range(letters)
       /\ Oks(error.let) = 0 /\ Fails(error.let) = n_tries
       /\ combined = <<>>

\* C1 witness: a letter was fetched, the next one failed three times, fatal
C1_Witness ==
  /\ pc = "raised"
  /\ n_tries = 3
  /\ Len(stock_vals) >= 1
  /\ Fails(error.let) = 3
  /\ read_eod_fn.kind = "flaky"

\* C2: with a fetch function that always fails for L and always succeeds
\* otherwise, and L in the partition: the call raises after exactly n_tries
\* attempts for L, each letter before L was attempted at most once and only
\* before L, and no letter after L is attempted.
C2_DeterministicFailure ==
  (/\ read_eod_fn.kind = "failsOn"
   /\ read_eod_fn.letter \in Range(get_letters_list(tickers))) =>
    LET part == get_letters_list(tickers)
        L == read_eod_fn.letter
        p == PosIn(part, L)
    IN /\ Oks(L) = 0
       /\ Calls(L) <= n_tries
       /\ Ended => (pc = "raised" /\ Calls(L) = n_tries)
       /\ (Ended /\ n_tries > 0) => error.let = L
       /\ \A q \in 1..Len(part) :
            /\ q < p => Calls(part[q]) <= 1
            /\ q > p => Calls(part[q]) = 0
       /\ \A j, h \in 1..Len(log) :
            (j < h /\ log[j][1] = L) => log[h][1] = L

\* C2 witness: request AAPL and XEL, X always fails, three attempts
C2_Witness ==
  /\ pc = "raised"
  /\ tickers.given /\ Range(tickers.list) = {AAPL, XEL}
  /\ read_eod_fn = [kind |-> "failsOn", letter |-> "X"]
  /\ n_tries = 3
  /\ log = << <<"A", TRUE>>, <<"X", FALSE>>, <<"X", FALSE>>, <<"X", FALSE>> >>

AllRows(part) == concat([q \in 1..Len(part) |-> read_eod_data(part[q])])

\* C5: for an empty or unset ticker collection the partition is the 26
\* letters A..Z in alphabetical order, one page is fetched per letter and all
\* rows are returned.
C5_EmptyOrUnsetFetchesAll ==
  (~tickers.given \/ tickers.list = <<>>) =>
    /\ pc # "start" =>
         /\ Len(letters) = 26
         /\ \A q \in 1..26 : Ord[letters[q]] = 64 + q
    /\ (Ended /\ \A j \in 1..Len(log) : log[j][2]) =>
         (n_tries > 0 =>
            /\ pc = "returned"
            /\ Len(log) = 26
            /\ Len(combined) = Len(AllRows(letters))
            /\ Codes(combined) = Codes(AllRows(letters)))

\* C6: for a non-empty ticker list the partition is the first characters of
\* the tickers, deduplicated and ascending; a failure-free run fetches one
\* page per distinct first character.
C6_PartitionSortedDistinct ==
  (tickers.given /\ tickers.list # <<>> /\ pc # "start") =>
    /\ Range(letters) = FirstChars
    /\ \A q \in 1..(Len(letters) - 1) : Ord[letters[q]] < Ord[letters[q + 1]]
    /\ (pc = "returned" /\ \A j \in 1..Len(log) : log[j][2]) =>
         Len(log) = Cardinality(FirstChars)

\* C6 witness: GOOGL then AAPL requested, pages A and G fetched in that order
C6_Witness ==
  /\ pc = "returned"
  /\ tickers.list = <<GOOGL, AAPL>>
  /\ letters = <<"A", "G">>
  /\ log = << <<"A", TRUE>>, <<"G", TRUE>> >>
\* ---------------------------------------- observations on the bulk path
InWindow ==
  /\ today - n_days_history <= start_date
  /\ start_date <= today
  /\ start_date <= end_date

\* C3: whenever download_stock_vals has ended, on whatever path, the browser
\* session is not left open.
C3_SessionClosedOnEveryExit == bpc = "done" => browser # "open"

\* C4: when construct_eoddate_driver raised, the exception that reaches the
\* caller is that exception, and the browser it may have started is released.
C4_AcquisitionErrorAfterRelease ==
  (bpc = "done" /\ pending.line \in {51, 52, 55, 58}) =>
    (outcome = pending /\ browser # "open")

\* C7: a range with start after end is rejected with ValueError, whichever
\* of the three checks fires first.
C7_InvertedRangeRejected ==
  (bpc = "validated" /\ start_date > end_date) =>
    (outcome.type = "ValueError" /\ validated = "rejected")

\* C7 witness: an inverted range inside the window, so only the third check
\* can reject it
C7_Witness ==
  /\ bpc = "validated"
  /\ start_date > end_date
  /\ today - n_days_history <= start_date /\ start_date <= today
  /\ outcome = Exc("ValueError", 90)

\* C8: for a non-negative lookback, check_valid_dates accepts exactly the
\* ranges with today - lookback <= start <= today and start <= end.
C8_AcceptsExactlyWindow ==
  (bpc = "validated" /\ n_days_history >= 0) =>
    /\ (outcome = NoExc) <=> InWindow
    /\ outcome # NoExc => outcome.type = "ValueError"
    /\ start_date = today - n_days_history - 1 => outcome # NoExc
    /\ (start_date = today - n_days_history /\ end_date >= start_date) =>
         outcome = NoExc
    /\ start_date > today => outcome # NoExc

\* C8 witness: the start is exactly the earliest admissible day
C8_Witness ==
  /\ bpc = "validated"
  /\ n_days_history = 2
  /\ start_date = today - 2
  /\ end_date = today
  /\ outcome = NoExc

\* C9: a browser session exists and a page is requested only after
\* check_valid_dates accepted the range; a rejected range ends the run with
\* no session and no request.
C9_ValidationBeforeAcquisition ==
  /\ (browser # "none" \/ requests # <<>>) =>
       (validated = "accepted" /\ InWindow)
  /\ validated = "rejected" =>
       /\ bpc = "done"
       /\ outcome.type = "ValueError"
       /\ browser = "none"
       /\ requests = <<>>
  /\ ~InWindow => (browser = "none" /\ requests = <<>>)

\* C9 witness: an accepted range, the session used for three requests and
\* closed
C9_Witness ==
  /\ bpc = "done"
  /\ validated = "accepted"
  /\ Len(requests) = 3
  /\ browser = "closed"
  /\ outcome = NoExc

\* the links of a page whose target matches the download endpoint
Matching(page) ==
  {j \in 1..Len(page) :
     page[j].has_href /\ re_match(pat_filedownload, page[j].href)}

\* the values of the query parameter named k of a target: "k=" right after
\* '?' or '&', up to the next '&'
KParamValues(s) ==
  {SubSeq(s, p + 2, RunEnd(s, p + 2)) :
     p \in {q \in 2..(Len(s) - 1) :
              s[q] = "k" /\ s[q + 1] = "=" /\ s[q - 1] \in {"?", "&"}}}

\* C10: once the scan is over, if some link matches the download endpoint
\* (and the first such link carries a k parameter) then token extraction
\* has not failed and the token is the value of that k parameter.
C10_TokenOfFirstMatchingLink ==
  (/\ bpc \in {"check_k", "request", "finally", "done"}
   /\ Matching(url_list) # {}
   /\ KParamValues(url_list[Leftmost(Matching(url_list))].href) # {}) =>
    /\ pending.line \notin {123, 126}
    /\ k \in KParamValues(url_list[Leftmost(Matching(url_list))].href)
\* t occurs in s at position p
OccursAt(s, t, p) ==
  /\ p >= 1
  /\ p + Len(t) - 1 <= Len(s)
  /\ SubSeq(s, p, p + Len(t) - 1) = t
Contains(s, t) == \E p \in 1..(Len(s) + 1) : OccursAt(s, t, p)

\* the download requests among the URLs requested so far
DownloadRequests ==
  {j \in 1..Len(requests) : OccursAt(requests[j], url_base, 1)}

\* C11: when the listing page has no link matching the download endpoint,
\* download_from_eoddata raises the line-126 exception and requests no
\* download; a download is requested only with a non-empty token that follows
\* "k=" in a link of the page loaded in this run.
C11_NoTokenNoDownload ==
  /\ (url_idx >= 1 /\ Matching(url_list) = {}) =>
       /\ DownloadRequests = {}
       /\ bpc # "request"
       /\ bpc \in {"finally", "done"} => pending = Exc("Exception", 126)
       /\ bpc = "done" => outcome = Exc("Exception", 126)
  /\ \A j \in DownloadRequests :
       /\ k # <<>>
       /\ Contains(requests[j], <<"&", "k", "=">> \o k \o <<"&">>)
       /\ \E a \in 1..Len(url_list) :
            /\ url_list[a].has_href
            /\ Contains(url_list[a].href, <<"k", "=">> \o k)

\* C11 witness: a page of two links, neither matching, ends in the exception
C11_Witness ==
  /\ bpc = "done"
  /\ Len(url_list) = 2
  /\ Matching(url_list) = {}
  /\ url_list[2].has_href
  /\ outcome = Exc("Exception", 126)
  /\ Len(requests) = 2

\* C12: the listing page is requested once and the download at most once,
\* in that order; token extraction is never entered again once it is over;
\* after a failure no further request is made and the failure reaches the
\* caller.
C12_NoRetry ==
  /\ [](\/ requests = <<>>
        \/ requests = <<url_main>>
        \/ requests = <<url_main, url_downloads_page>>
        \/ /\ Len(requests) = 3
           /\ SubSeq(requests, 1, 2) = <<url_main, url_downloads_page>>
           /\ DownloadRequests = {3})
  /\ [][/\ bpc \in {"check_k", "request", "finally", "done"} =>
             bpc' \notin {"listing", "scan"}
        /\ pending # NoExc => requests' = requests
        /\ (pending.line \in {103, 123, 126, 143} /\ bpc' = "done") =>
             outcome' = pending]_vars

\* C12 witness: the download request itself failed; three requests in all
C12_Witness ==
  /\ bpc = "done"
  /\ pending = Exc("WebDriverException", 143)
  /\ outcome = pending
  /\ Len(requests) = 3
\* the rows of `all` a request asks for, and their order-preserving selection
Wanted(row) == ~tickers.given \/ row.Code \in Range(tickers.list)
KeptIdx(all) == {r \in 1..Len(all) : Wanted(all[r])}
RankIn(K, r) == Cardinality({q \in K : q <= r})
IsOrderedSelection(res, all) ==
  /\ Len(res) = Cardinality(KeptIdx(all))
  /\ \A r \in KeptIdx(all) : res[RankIn(KeptIdx(all), r)].Code = all[r].Code
AllFetched == pc \in {"loop", "returned", "raised"} /\ let_idx > Len(letters)

\* C13: the tickers warned about are exactly the requested tickers absent
\* from the returned table (none warned about when none is absent), and the
\* call returns the filtered rows whether or not tickers are missing.
C13_ReconciliationInformational ==
  /\ pc = "returned" =>
       /\ Range(warned) =
            {t \in Range(tickers.list) : t \notin Codes(combined)}
       /\ IsOrderedSelection(combined, AllRows(letters))
  /\ (Ended /\ AllFetched /\ letters # <<>>) => pc = "returned"

\* C13 witness: AAPL and NOTASTOCK requested, the AAPL row returned,
\* NOTASTOCK warned about
C13_Witness ==
  /\ pc = "returned"
  /\ tickers.list = <<AAPL, NOTASTOCK>>
  /\ warned = <<NOTASTOCK>>
  /\ Len(combined) = 1
  /\ combined[1].Code = AAPL

\* C14: with tickers given, the returned table holds exactly the rows of the
\* concatenated pages whose Code is requested, in the order of the pages.
C14_FilterKeepsRequestedInPageOrder ==
  (pc = "returned" /\ tickers.given) =>
    /\ IsOrderedSelection(combined, AllRows(letters))
    /\ Codes(combined) = Codes(AllRows(letters)) \cap Range(tickers.list)

\* C14 witness: AMZN requested before AAPL; AAPL is returned first and ADBE,
\* on the same page, is dropped
C14_Witness ==
  /\ pc = "returned"
  /\ tickers.list = <<AMZN, AAPL>>
  /\ Len(combined) = 2
  /\ combined[1].Code = AAPL
  /\ combined[2].Code = AMZN

\* C15: once every letter has succeeded, stock_vals holds one table per
\* partition letter, in partition order, each from that letter's only
\* successful call; the returned table is indexed 0..n-1, and without a
\* ticker filter it is the concatenation of those tables.
C15_OneTablePerLetterInOrder ==
  /\ AllFetched =>
       /\ Len(stock_vals) = Len(letters)
       /\ \A q \in 1..Len(letters) :
            /\ Oks(letters[q]) = 1
            /\ Len(stock_vals[q]) = Len(Listing(letters[q]))
            /\ \A r \in 1..Len(stock_vals[q]) :
                 stock_vals[q][r].Code = Listing(letters[q])[r]
  /\ pc = "returned" =>
       /\ \A r \in 1..Len(combined) : combined[r].index = r - 1
       /\ ~tickers.given =>
            /\ Len(combined) = Len(concat(stock_vals))
            /\ \A r \in 1..Len(combined) :
                 combined[r].Code = concat(stock_vals)[r].Code

\* C15 witness: all 26 pages fetched, some attempt having failed on the way
C15_Witness ==
  /\ pc = "returned"
  /\ ~tickers.given
  /\ Len(combined) = 28
  /\ \E j \in 1..Len(log) : ~log[j][2]
\* the values a URL gives to the query parameter `name`
ParamValues(u, name) ==
  {SubSeq(u, p + Len(name) + 1, RunEnd(u, p + Len(name) + 1)) :
     p \in {q \in 2..Len(u) :
              u[q - 1] \in {"?", "&"} /\ OccursAt(u, name \o <<"=">>, q)}}

DigitValue ==
  "0" :> 0 @@ "1" :> 1 @@ "2" :> 2 @@ "3" :> 3 @@ "4" :> 4 @@
  "5" :> 5 @@ "6" :> 6 @@ "7" :> 7 @@ "8" :> 8 @@ "9" :> 9

\* ds is the 8-digit YYYYMMDD writing of the day with ordinal n
IsYmdOf(ds, n) ==
  /\ Len(ds) = 8
  /\ \A j \in 1..8 : ds[j] \in DOMAIN DigitValue
  /\ LET v(j) == DigitValue[ds[j]]
         y == 1000 * v(1) + 100 * v(2) + 10 * v(3) + v(4)
         m == 10 * v(5) + v(6)
         d == 10 * v(7) + v(8)
     IN /\ m \in 1..12
        /\ d \in 1..DaysInMonth(y, m)
        /\ DaysBeforeYear(y) + DaysBeforeMonth(y, m) + d = n

\* C16: the download URL carries the market as e, start and end as 8-digit
\* YYYYMMDD in sd and ed, d=4, the token unchanged as k, and o=d, ea=1, p=0
\* (2020-01-01, ordinal 737425, is written 20200101).
C16_DownloadUrlParameters ==
  /\ strftime_Ymd(737425) = <<"2", "0", "2", "0", "0", "1", "0", "1">>
  /\ \A j \in DownloadRequests :
       LET u == requests[j]
       IN /\ OccursAt(u, url_base \o <<"?">>, 1)
          /\ ParamValues(u, <<"e">>) = {market}
          /\ \E ds \in ParamValues(u, <<"s", "d">>) :
               /\ ParamValues(u, <<"s", "d">>) = {ds}
               /\ IsYmdOf(ds, start_date)
          /\ \E ds \in ParamValues(u, <<"e", "d">>) :
               /\ ParamValues(u, <<"e", "d">>) = {ds}
               /\ IsYmdOf(ds, end_date)
          /\ ParamValues(u, <<"d">>) = {<<"4">>}
          /\ ParamValues(u, <<"k">>) = {k}
          /\ ParamValues(u, <<"o">>) = {<<"d">>}
          /\ ParamValues(u, <<"e", "a">>) = {<<"1">>}
          /\ ParamValues(u, <<"p">>) = {<<"0">>}

\* C16 witness: INDEX from 2018-05-31 to 2018-06-01 with the token of the
\* documented link
C16_Witness ==
  /\ Len(requests) = 3
  /\ market = INDEX
  /\ start_date = Today - 6
  /\ end_date = Today - 5
  /\ ParamValues(requests[3], <<"s", "d">>) =
       {<<"2", "0", "1", "8", "0", "5", "3", "1">>}
  /\ ParamValues(requests[3], <<"e", "d">>) =
       {<<"2", "0", "1", "8", "0", "6", "0", "1">>}
  /\ k = <<"p", "h", "7", "2", "h", "4", "y", "n", "w", "2">>
\* failed calls for the letter of log entry j among the entries up to j
FailsUpTo(j) ==
  Cardinality({h \in 1..j : log[h][1] = log[j][1] /\ ~log[h][2]})

\* C17: fetches are sequential in partition order: the first call is for the
\* first letter; after a failed call the next call is for the same letter,
\* and there is one only if attempts remain; after a successful call the next
\* call is for the next partition letter; a letter that succeeded, and any
\* letter once one is exhausted, is never called again.
C17_StrictlySequential ==
  /\ \A j \in 1..Len(log) : log[j][1] \in Range(letters)
  /\ log # <<>> => log[1][1] = letters[1]
  /\ \A j \in 1..(Len(log) - 1) :
       IF log[j][2]
         THEN PosIn(letters, log[j + 1][1]) = PosIn(letters, log[j][1]) + 1
         ELSE /\ log[j + 1][1] = log[j][1]
              /\ FailsUpTo(j) < n_tries
  /\ \A l \in Range(letters) : Oks(l) <= 1
  /\ (pc = "raised" /\ log # <<>>) =>
       (~log[Len(log)][2] => FailsUpTo(Len(log)) = n_tries)

\* C17 witness: A fails once and then succeeds, G follows
C17_Witness ==
  /\ pc = "returned"
  /\ log = << <<"A", FALSE>>, <<"A", TRUE>>, <<"G", TRUE>> >>
\* a bound on the steps get_vals_from_eoddata can still take
Rank ==
  CASE pc = "start" ->
         (Len(get_letters_list(tickers)) + 1) * (n_tries + 1) + 1
    [] pc = "loop" ->
         (Len(letters) - let_idx + 1) * (n_tries + 1) + (n_tries - i) + 1
    [] OTHER -> 0

\* C18: get_vals_from_eoddata terminates whatever the fetch function does:
\* every step lowers a non-negative bound on the steps left and a run that
\* has not ended can take a step; it makes at most |partition| x n_tries
\* fetch calls; with n_tries <= 0 and a non-empty partition it raises for the
\* first letter without any fetch call.
C18_TerminatesWithinBudget ==
  /\ [](/\ Rank >= 0
        /\ Ended \/ ENABLED ScrapeNext
        /\ Len(log) <= Len(letters) * n_tries
        /\ (n_tries <= 0 /\ letters # <<>> /\ Ended) =>
             /\ pc = "raised"
             /\ error = [type |-> "Exception", let |-> letters[1],
                         n_tries |-> n_tries]
             /\ log = <<>>)
  /\ [][Rank' < Rank]_vars

\* C18 witness: no attempts allowed, GOOGL and AAPL requested: the call
\* raises for A and fetches nothing
C18_Witness ==
  /\ pc = "raised"
  /\ n_tries = 0
  /\ tickers.list = <<GOOGL, AAPL>>
  /\ error.let = "A"
  /\ log = <<>>
\* C19: in one run of download_stock_vals the session is closed at most
\* once, nothing is done with it after the close, every driver.get goes to
\* a started session that has not been closed, and the requests of
\* download_from_eoddata go to the session construct_eoddate_driver returned.
C19_SessionLifecycle ==
  /\ [](/\ closes <= 1
        /\ closes = 1 <=> browser = "closed"
        /\ browser = "closed" => bpc = "done" /\ driver_bound
        /\ browser = "none" => requests = <<>> /\ ~driver_bound
        /\ bpc \in {"listing", "scan", "check_k", "request"} =>
             driver_bound /\ browser = "open")
  /\ [][/\ requests' # requests =>
             /\ browser = "open" /\ browser' = "open"
             /\ closes = 0 /\ closes' = 0
        /\ (requests' # requests /\ bpc \in {"listing", "request"}) =>
             driver_bound
        /\ browser = "closed" =>
             UNCHANGED <<browser, requests, closes, driver_bound>>]_vars

\* C19 witness: the listing request fails after the main page was loaded;
\* the session is closed once, after both requests
C19_Witness ==
  /\ bpc = "done"
  /\ closes = 1
  /\ browser = "closed"
  /\ outcome = Exc("WebDriverException", 103)
  /\ requests = <<url_main, url_downloads_page>>
\* requests naming the same tickers as the current one
SameTickers(t2) == t2.given /\ Range(t2.list) = Range(tickers.list)

\* the calls a fetch function that never fails, or always fails on one
\* letter, receives for the partition `part` with n attempts per letter;
\* p is the position of the letter the call gives up on
DetLog(part, n, fn) ==
  LET p == IF n = 0 /\ part # <<>>
             THEN 1
             ELSE IF fn.kind = "failsOn" /\ fn.letter \in Range(part)
                    THEN PosIn(part, fn.letter)
                    ELSE Len(part) + 1
  IN  [q \in 1..((p - 1) + (IF p <= Len(part) THEN n ELSE 0)) |->
         IF q < p THEN <<part[q], TRUE>> ELSE <<part[p], FALSE>>]

\* the rows of the pages of `part` whose code is in S, in page order,
\* indexed from 0
TableOfSet(S, part) ==
  LET all == AllRows(part)
      K == {r \in 1..Len(all) : all[r].Code \in S}
  IN  [q \in 1..Cardinality(K) |->
         [index |-> q - 1,
          Code |-> all[CHOOSE r \in K : RankIn(K, r) = q].Code]]

\* C20: with a fetch function whose result depends only on the letter, the
\* partition, the sequence of fetches, the way the call ends and the returned
\* table are determined by the set of requested tickers: every request with
\* the same set of tickers has the same partition and the same filtered
\* table, and no row is returned twice.
C20_DependsOnlyOnTickerSet ==
  (tickers.given /\ read_eod_fn.kind # "flaky") =>
    /\ \A t2 \in TickersArgs :
         SameTickers(t2) =>
           /\ get_letters_list(t2) = get_letters_list(tickers)
           /\ pc # "start" => letters = get_letters_list(t2)
           /\ pc = "returned" => combined = Filtered(stock_vals, t2)
    /\ pc # "start" =>
         /\ Range(letters) = {t[1] : t \in Range(tickers.list)}
         /\ \A q \in 1..(Len(letters) - 1) :
              Ord[letters[q]] < Ord[letters[q + 1]]
    /\ Ended =>
         /\ log = DetLog(letters, n_tries, read_eod_fn)
         /\ pc = "raised" <=>
              \/ letters = <<>>
              \/ n_tries = 0
              \/ /\ read_eod_fn.kind = "failsOn"
                 /\ read_eod_fn.letter \in Range(letters)
    /\ pc = "returned" =>
         /\ combined = TableOfSet(Range(tickers.list), letters)
         /\ \A q, r \in 1..Len(combined) :
              combined[q].Code = combined[r].Code => q = r

\* C20 witness: AAPL requested twice; page A is fetched once and the table
\* holds the AAPL row once
C20_Witness ==
  /\ pc = "returned"
  /\ tickers.list = <<AAPL, AAPL>>
  /\ log = << <<"A", TRUE>> >>
  /\ combined = << [index |-> 0, Code |-> AAPL] >>
====
